---- MODULE Spec2Model ----
(***************************************************************************)
(* 7lfix (mgk.ro): the refactoring pipeline of src/unnamed/part_000, the   *)
(* version built around type prog (lines 271-1044).                        *)
(*                                                                         *)
(* The parsed program (cc.Prog) is a preorder list of file-scope           *)
(* declarations, each followed by the expressions of its body or of its    *)
(* initializer.  A declaration's identity (the *cc.Decl pointer) is its    *)
(* index in that list.  The parser and the pretty printer are external;    *)
(* a printed declaration is the record of what the printer reads.          *)
(***************************************************************************)
EXTENDS Integers, Sequences, FiniteSets, TLC

\* Bounds of the model.
NDecl == 3          \* file-scope declarations in the parsed program
NExpr == 2          \* expressions (references) in the parsed program
MaxReprint == 1     \* extra calls of print a test driver may make in a run

Nil == 0            \* a nil *cc.Decl

Decls == 1..NDecl
Exprs == 1..NExpr

VARIABLES
    decl,        \* cc.Prog: the file-scope declarations, by identity
    expr,        \* cc.Prog: the expressions, in preorder
    start,       \* the start symbols (a map[string]bool, as the set of true keys)
    newnames,    \* the rename map
    needcursym,  \* the globals that move behind LSym *cursym
    fields,      \* linkprog.fields: the names of the fields of struct Link
    filemap,     \* input file -> output file
    symlist,     \* prog.symlist
    symmap,      \* prog.symmap
    symtab,      \* prog.symtab
    forward,     \* prog.forward
    reverse,     \* prog.reverse
    filetab,     \* prog.filetab
    generation,  \* the global generation counter
    stages,      \* the stage directories l.n written so far: n -> file -> text
    patches,     \* the patch files written by diff: name -> the two stages compared
    all,         \* the older main: every function declaration in the code
    deps,        \* the older main: function -> the declarations it depends on
    extracted,   \* the older main: the subset that extract returned
    pc           \* main's position

config == <<start, newnames, needcursym, fields, filemap>>
tree == <<decl, expr>>
index == <<symlist, symmap, symtab, forward, reverse, filetab>>
output == <<generation, stages, patches>>
oldprog == <<all, deps, extracted>>
vars == <<decl, expr, start, newnames, needcursym, fields, filemap, symlist, symmap,
          symtab, forward, reverse, filetab, generation, stages, patches, all, deps,
          extracted, pc>>

(***************************************************************************)
(* Syntax nodes.                                                           *)
(***************************************************************************)
\* A parameter declaration of a function type (an element of Type.Decls).
VoidParam == [Name |-> "", Type |-> "void"]
IntParam == [Name |-> "p", Type |-> "int"]

\* A *cc.Decl: Kind is Type.Kind, Body and Init tell whether the pointers are
\* non-nil, File is Span.Start.File, Decls is Type.Decls.
MkDecl(name, kind, body, init, file, storage, params) ==
    [Name |-> name, Kind |-> kind, Body |-> body, Init |-> init, File |-> file,
     Storage |-> storage, Decls |-> params]

\* A *cc.Expr with Op == cc.Name: Text is the identifier.  Nested tells
\* whether a declaration of function type inside the same body (a prototype at
\* block scope) comes before the expression.
MkName(owner, text) ==
    [Owner |-> owner, Op |-> "Name", Text |-> text, LText |-> "", XDecl |-> Nil,
     List |-> <<>>, Nested |-> FALSE]

\* A *cc.Expr with Op == cc.Addr or cc.Call together with its operand Left, a
\* Name node that the walks visit right after it: Text is the node's own Text,
\* LText is Left.Text ("" when Left is no identifier), XDecl is Left.XDecl, and
\* List holds the Text of the Name nodes passed as arguments.
MkOp(owner, op, ltext, xdecl) ==
    [Owner |-> owner, Op |-> op, Text |-> "", LText |-> ltext, XDecl |-> xdecl,
     List |-> <<>>, Nested |-> FALSE]

IsFunc(d) == decl[d].Kind = "Func"
HasBody(d) == IsFunc(d) /\ decl[d].Body

\* A Go map read with a missing key yields the zero value.
FilemapGet(fm, file) == IF file \in DOMAIN fm THEN fm[file] ELSE ""

EmptyMap == [x \in {} |-> Nil]


\* strings.Contains(s, sub)
Contains(s, sub) ==
    \E i \in 1..(Len(s) - Len(sub) + 1) : SubSeq(s, i, i + Len(sub) - 1) = sub

(***************************************************************************)
(* The programs and configurations the pipeline is run on.                 *)
(***************************************************************************)
FuncNames == <<"span", "asmout", "diag", "follow", "noops">>
SrcFiles == <<"span.c", "obj.c", "asmout.c", "span.c", "obj.c">>
ParamLists == <<(<<VoidParam>>), (<<IntParam>>), (<<VoidParam>>), (<<IntParam>>),
                (<<VoidParam>>)>>

\* The file map of the source, cut to the files above; l.h is not in it.
DefaultFilemap == ("span.c" :> "asm7.c") @@ ("asmout.c" :> "asm7.c") @@ ("obj.c" :> "obj7.c")
DefaultRename == ("span" :> "span7")

Funcs == 1..(NDecl - 1)

\* Function definitions 1..NDecl-1 followed by one initialized global.
ChainDecls(dataname) ==
    [d \in Decls |->
        IF d < NDecl
        THEN MkDecl(FuncNames[d], "Func", TRUE, FALSE, SrcFiles[d], "", ParamLists[d])
        ELSE MkDecl(dataname, "Int", FALSE, TRUE, "obj.c", "", <<>>)]

\* The expressions are listed in preorder, so their owners never decrease.
Preordered(xs) == \A i, j \in Exprs : i < j => xs[i].Owner <= xs[j].Owner

\* A reference from a function body to a declaration: by name to anything, by
\* a call to a function, by address to the global.
GraphRefs(ds) ==
    {MkName(o, ds[t].Name) : o \in Funcs, t \in Decls}
        \cup {MkOp(o, "Call", ds[t].Name, t) : o \in Funcs, t \in Funcs}
        \cup {MkOp(o, "Addr", ds[NDecl].Name, NDecl) : o \in Funcs}

Scenario(ds, xs, st, nn, nc, fl, fm) ==
    [decl |-> ds, expr |-> xs, start |-> st, newnames |-> nn, needcursym |-> nc,
     fields |-> fl, filemap |-> fm]

\* Every dependency graph over the chain program, with start sets that resolve
\* and one that does not.
GraphScenarios ==
    LET ds == ChainDecls("curtext")
    IN  {Scenario(ds, xs, st, DefaultRename, {"curtext"}, {"curtext"}, DefaultFilemap) :
            xs \in {ys \in [Exprs -> GraphRefs(ds)] : Preordered(ys)},
            st \in {{"span"}, {"asmout"}, {"span", "listinit"}}}

\* The call chain 1 -> 2 -> ... -> NDecl-1 -> global, one link per expression.
ChainOwner(k) == IF k < NDecl - 1 THEN k ELSE NDecl - 1
ChainRef(ds, k, op) ==
    IF op = "Name" THEN MkName(ChainOwner(k), ds[ChainOwner(k) + 1].Name)
    ELSE MkOp(ChainOwner(k), op, ds[ChainOwner(k) + 1].Name, ChainOwner(k) + 1)
ChainExprs(ds) ==
    [k \in Exprs |-> ChainRef(ds, k, IF ChainOwner(k) + 1 < NDecl THEN "Call" ELSE "Name")]

\* The chain with every kind of reference, the last one also from the global's
\* own initializer, and the global moved behind cursym, behind ctxt or both.
ThreadRefs(ds) ==
    {[k \in Exprs |->
        IF k = NExpr /\ top THEN [ChainRef(ds, k, ops[k]) EXCEPT !.Owner = NDecl]
        ELSE ChainRef(ds, k, ops[k])] :
        ops \in [Exprs -> {"Name", "Call", "Addr"}], top \in BOOLEAN}
ThreadScenarios ==
    LET Moves == {<<"curtext", {"curtext"}, {"textp"}>>,
                  <<"curtext", {"curtext"}, {"curtext"}>>,
                  <<"textp", {}, {"textp"}>>}
    IN  UNION {{Scenario(ChainDecls(m[1]), xs, {"span"}, DefaultRename, m[2], m[3],
                         DefaultFilemap) : xs \in ThreadRefs(ChainDecls(m[1]))} :
               m \in Moves}

InFiles == {"span.c", "asmout.c", "obj.c", "l.h"}

\* The chain program with its declarations spread over every choice of input
\* files, with and without obj.c in the file map.
FileScenarios ==
    LET ds == ChainDecls("curtext")
    IN  {Scenario([d \in Decls |-> [ds[d] EXCEPT !.File = fs[d]]], ChainExprs(ds), st,
                  DefaultRename, {"curtext"}, {"textp"}, fm) :
            fs \in [Decls -> InFiles],
            st \in {{"span"}, {"span", "asmout"}},
            fm \in {DefaultFilemap,
                    ("span.c" :> "asm7.c") @@ ("asmout.c" :> "asm7.c")}}

\* Declarations the emitter treats apart: a prototype ahead of its definition,
\* a declaration that is static in the source, a global without initializer,
\* an enumerant.  The last function may call itself; the parser binds that
\* call to the prototype when there is one.
EmitScenarios ==
    LET ds == ChainDecls("curtext")
        last == NDecl - 1
        proto == [ds[1] EXCEPT !.Name = FuncNames[last], !.Body = FALSE]
        refs(first, self) ==
            [k \in Exprs |->
                IF k = 1 /\ self
                THEN MkOp(last, "Call", FuncNames[last], IF first = proto THEN 1 ELSE last)
                ELSE MkName(last, "curtext")]
    IN  {Scenario([ds EXCEPT ![1] = first, ![last].Storage = sto,
                             ![NDecl].Kind = data[1], ![NDecl].Init = data[2]],
                  refs(first, self), {first.Name, FuncNames[last]},
                  DefaultRename, {"curtext"}, {"textp"}, DefaultFilemap) :
            first \in {ds[1], proto},
            self \in BOOLEAN,
            sto \in {"", "Static"},
            data \in {<<"Int", TRUE>>, <<"Int", FALSE>>, <<"Enum", TRUE>>}}

\* The declaration the parser binds an identifier to: the last one of that
\* name, nil when there is none.
Resolve(ds, text) ==
    LET ns == {d \in Decls : ds[d].Name = text}
    IN  IF ns = {} THEN Nil ELSE CHOOSE d \in ns : \A e \in ns : e <= d

RenameKeys == {"span", "asmout"}
RenameValues == {"span", "asmout", "span7", "listinit7"}
\* Every mapping from some of the keys to other names: single pairs, pairs
\* that chain or swap, two names mapped to one.
RenameMaps ==
    {nn \in UNION {[ks -> RenameValues] : ks \in SUBSET RenameKeys} :
        \A k \in DOMAIN nn : nn[k] # k}

RenameDecls0 ==
    {ds \in [Decls -> {[ChainDecls("curtext")[d] EXCEPT !.Name = n] :
                          d \in Decls, n \in RenameKeys \cup {"curtext"}}] :
        \A d \in Decls :
            /\ ds[d] = [ChainDecls("curtext")[d] EXCEPT !.Name = ds[d].Name]
            /\ (ds[d].Name = "curtext") = (d = NDecl)}
RenameRefs(ds) ==
    {[k \in Exprs |->
        IF k % 2 = 1 THEN MkName(NDecl - 1, ts[k])
        ELSE MkOp(NDecl - 1, "Call", ts[k], Resolve(ds, ts[k]))] :
        ts \in {us \in [Exprs -> RenameKeys \cup {"curtext"}] :
                    \A k \in Exprs : k % 2 = 0 => us[k] \in RenameKeys}}
RenameScenarios ==
    UNION {{Scenario(ds, xs, {ds[d].Name : d \in Decls}, nn, {"curtext"}, {"textp"},
                     DefaultFilemap) : xs \in RenameRefs(ds), nn \in RenameMaps} :
           ds \in RenameDecls0}

\* The chain with one of its functions named diag, the function addcursym
\* leaves alone.
DenyScenarios ==
    UNION {{Scenario(ds, xs, {ds[1].Name}, DefaultRename, {"curtext"}, {"textp"},
                     DefaultFilemap) : xs \in ThreadRefs(ds)} :
           ds \in {[ChainDecls("curtext") EXCEPT ![f].Name = "diag"] : f \in Funcs}}

\* Every function a start symbol, one of them referring to the global textp,
\* a field of Link, and the initializer of textp referring to textp too.
InitRefScenarios ==
    LET ds == ChainDecls("textp")
        ref(o, op) == IF op = "Name" THEN MkName(o, "textp") ELSE MkOp(o, op, "textp", NDecl)
    IN  {Scenario(ds, [k \in Exprs |-> IF k = NExpr THEN ref(NDecl, top) ELSE ref(o, op)],
                  {ds[f].Name : f \in Funcs}, DefaultRename, {}, {"textp"}, DefaultFilemap) :
            o \in Funcs, op \in {"Name", "Addr"}, top \in {"Name", "Addr"}}

\* The first function calls the second with the global as the argument, and
\* the second calls the first back or refers to something by name.
ArgScenarios ==
    LET Moves == {<<"curtext", {"curtext"}, {"textp"}>>, <<"textp", {}, {"textp"}>>}
        call(ds, g) == [MkOp(1, "Call", ds[2].Name, 2) EXCEPT !.List = <<g>>]
    IN  UNION {{Scenario(ChainDecls(m[1]),
                         [k \in Exprs |-> IF k = 1 THEN call(ChainDecls(m[1]), m[1]) ELSE rest],
                         {"span"}, DefaultRename, m[2], m[3], DefaultFilemap) :
                   rest \in {MkOp(2, "Call", "span", 1), MkName(2, m[1]), MkName(2, "span")}} :
               m \in Moves}

\* The chain with one reference that follows a prototype at block scope.
ScopeScenarios ==
    LET ds == ChainDecls("curtext")
        xs == ChainExprs(ds)
    IN  {Scenario(ds, [xs EXCEPT ![k].Nested = TRUE], st, DefaultRename, {"curtext"},
                  {"textp"}, DefaultFilemap) :
            k \in Exprs, st \in {{"span"}, {"span", "curtext"}}}

Scenarios ==
    GraphScenarios \cup ThreadScenarios \cup FileScenarios \cup EmitScenarios
        \cup RenameScenarios \cup DenyScenarios \cup InitRefScenarios \cup ArgScenarios
        \cup ScopeScenarios

\* The state when main calls NewProg on one of the programs of S.
Parsed(S) ==
    /\ \E s \in S :
        /\ decl = s.decl
        /\ expr = s.expr
        /\ start = s.start
        /\ newnames = s.newnames
        /\ needcursym = s.needcursym
        /\ fields = s.fields
        /\ filemap = s.filemap
    /\ symlist = <<>>
    /\ symmap = {}
    /\ symtab = EmptyMap
    /\ forward = EmptyMap
    /\ reverse = EmptyMap
    /\ filetab = EmptyMap
    /\ generation = 0
    /\ stages = EmptyMap
    /\ patches = EmptyMap
    /\ all = {}
    /\ deps = EmptyMap
    /\ extracted = <<>>
    /\ pc = "NewProg"

Init == Parsed(Scenarios)

\* The programs a test of the emitter is run on.
InitEmit == Parsed(ThreadScenarios \cup FileScenarios \cup EmitScenarios)

\* The programs a test of diff is run on.
InitDiff == Parsed(EmitScenarios)

(***************************************************************************)
(* NewProg (lines 468-553).                                                *)
(***************************************************************************)
\* Lines 477-502: every modelled declaration is a file-scope one (XOuter is
\* nil) and is visited with curfunc == nil, so each is recorded; a later
\* declaration of a name replaces the earlier one in symtab (line 485).
Catalog ==
    LET names == {decl[d].Name : d \in Decls}
    IN  [symlist |-> [i \in Decls |-> i],
         symmap |-> Decls,
         symtab |-> [n \in names |->
                       CHOOSE d \in Decls :
                           /\ decl[d].Name = n
                           /\ \A e \in Decls : decl[e].Name = n => e <= d]]

\* AddEdge with lines 525 and 537 left out: no reverse edge is recorded.
AddEdgeForwardOnly(g, f, s) ==
    [g EXCEPT !.forward[f] = @ \cup {s}]

\* Lines 524-525 and 536-537: both sides of an edge are set together.
AddEdge(g, f, s) ==
    [forward |-> [g.forward EXCEPT ![f] = @ \cup {s}],
     reverse |-> [g.reverse EXCEPT ![s] = @ \cup {f}]]

\* Lines 516-525: a Name node in the body of f.
NameEdge(g, st, f, text) ==
    IF text \notin DOMAIN st THEN g ELSE AddEdge(g, f, st[text])

\* Lines 526-537: an Addr or Call node in the body of f.
OperandEdge(g, sm, f, x) ==
    IF x.XDecl = Nil \/ x.XDecl \notin sm THEN g ELSE AddEdge(g, f, x.XDecl)

RECURSIVE ArgEdges(_, _, _, _, _)
ArgEdges(g, st, f, list, i) ==
    IF i > Len(list) THEN g
    ELSE ArgEdges(NameEdge(g, st, f, list[i]), st, f, list, i + 1)

\* Lines 505-513 with 493-501: in the paired walk curfunc is the function
\* definition whose subtree is being visited, and nil outside of one.  The
\* callback after sets it to nil at the end of every declaration of function
\* type, one inside a body too, and before sets it only at a definition at
\* file scope: the rest of a body after a nested one is walked with nil.
WalkCurfunc(x) == IF HasBody(x.Owner) /\ ~x.Nested THEN x.Owner ELSE Nil

\* Lines 514-539: one expression of the second walk, then its operand and
\* its arguments, which the walk visits next.
VisitExpr(g, st, sm, x) ==
    LET f == WalkCurfunc(x)
        g1 == IF x.Op = "Name" THEN NameEdge(g, st, f, x.Text)
              ELSE OperandEdge(g, sm, f, x)
        g2 == IF x.LText # "" THEN NameEdge(g1, st, f, x.LText) ELSE g1
    IN  IF f = Nil THEN g ELSE ArgEdges(g2, st, f, x.List, 1)

RECURSIVE Dependencies(_, _, _, _)
Dependencies(g, st, sm, k) ==
    IF k > NExpr THEN g
    ELSE Dependencies(VisitExpr(g, st, sm, expr[k]), st, sm, k + 1)

\* Lines 543-551.
Filetab(sl) ==
    LET syms == {sl[i] : i \in DOMAIN sl}
    IN  [file \in {decl[d].File : d \in syms} |-> {d \in syms : decl[d].File = file}]

NewProg ==
    /\ pc = "NewProg"
    /\ LET c == Catalog
           g0 == [forward |-> [d \in Decls |-> {}], reverse |-> [d \in Decls |-> {}]]
           g == Dependencies(g0, c.symtab, c.symmap, 1)
       IN  /\ symlist' = c.symlist
           /\ symmap' = c.symmap
           /\ symtab' = c.symtab
           /\ forward' = g.forward
           /\ reverse' = g.reverse
           /\ filetab' = Filetab(c.symlist)
    /\ pc' = "extract"
    /\ UNCHANGED <<tree, config, oldprog, output>>

(***************************************************************************)
(* extract and trim (lines 555-624).                                       *)
(***************************************************************************)
\* r with the loop of lines 565-567 left out: a symbol is marked and its
\* dependencies are not followed.
rMarksOnly(sym, subset) == subset \cup {sym}

RECURSIVE r(_, _), rEach(_, _)
\* Lines 560-568: the closure r of extract; subset is its visited set.
r(sym, subset) ==
    IF sym \in subset THEN subset
    ELSE rEach(forward[sym], subset \cup {sym})
\* Line 565: the range over forward[sym], in some order.
rEach(syms, subset) ==
    IF syms = {} THEN subset
    ELSE LET s == CHOOSE x \in syms : TRUE
         IN  rEach(syms \ {s}, r(s, subset))

RECURSIVE Reach(_, _)
\* Lines 569-575 with every start name resolved.
Reach(names, subset) ==
    IF names = {} THEN subset
    ELSE LET n == CHOOSE x \in names : TRUE
         IN  Reach(names \ {n}, r(symtab[n], subset))

RECURSIVE rVisit(_, _), rVisitEach(_, _)
\* Lines 560-568 with a record of the calls of r that get past the test of
\* line 561: acc.subset is the visited set, acc.visits the symbols in the
\* order they are marked and expanded.
rVisit(sym, acc) ==
    IF sym \in acc.subset THEN acc
    ELSE rVisitEach(forward[sym],
                    [subset |-> acc.subset \cup {sym}, visits |-> Append(acc.visits, sym)])
rVisitEach(syms, acc) ==
    IF syms = {} THEN acc
    ELSE LET s == CHOOSE x \in syms : TRUE
         IN  rVisitEach(syms \ {s}, rVisit(s, acc))

RECURSIVE ReachVisitsFresh(_, _)
\* ReachVisits with subset made anew for every start name.
ReachVisitsFresh(names, acc) ==
    IF names = {} THEN acc
    ELSE LET n == CHOOSE x \in names : TRUE
         IN  ReachVisitsFresh(names \ {n}, rVisit(symtab[n], [acc EXCEPT !.subset = {}]))

RECURSIVE ReachVisits(_, _)
\* Lines 558 and 569-575 with every start name resolved.
ReachVisits(names, acc) ==
    IF names = {} THEN acc
    ELSE LET n == CHOOSE x \in names : TRUE
         IN  ReachVisits(names \ {n}, rVisit(symtab[n], acc))

\* trim with lines 592-597 left out: symtab keeps the names of the symbols
\* that are trimmed away.
trimKeepsNames(subset) ==
    [symlist |-> SelectSeq(symlist, LAMBDA sym : sym \in subset),
     symmap |-> {symlist[i] : i \in {j \in DOMAIN symlist : symlist[j] \in subset}},
     symtab |-> symtab,
     forward |-> [sym \in DOMAIN forward \cap subset |-> forward[sym]],
     reverse |-> [sym \in DOMAIN reverse \cap subset |-> reverse[sym] \cap subset],
     filetab |-> [file \in DOMAIN filetab |-> filetab[file] \cap subset]]

\* trim with lines 609-614 left out: the sets of reverse keep their members.
trimKeepsUsers(subset) ==
    [symlist |-> SelectSeq(symlist, LAMBDA sym : sym \in subset),
     symmap |-> {symlist[i] : i \in {j \in DOMAIN symlist : symlist[j] \in subset}},
     symtab |-> [n \in {m \in DOMAIN symtab : symtab[m] \in subset} |-> symtab[n]],
     forward |-> [sym \in DOMAIN forward \cap subset |-> forward[sym]],
     reverse |-> [sym \in DOMAIN reverse \cap subset |-> reverse[sym]],
     filetab |-> [file \in DOMAIN filetab |-> filetab[file] \cap subset]]

\* Lines 580-624.
trim(subset) ==
    [symlist |-> SelectSeq(symlist, LAMBDA sym : sym \in subset),
     symmap |-> {symlist[i] : i \in {j \in DOMAIN symlist : symlist[j] \in subset}},
     symtab |-> [n \in {m \in DOMAIN symtab : symtab[m] \in subset} |-> symtab[n]],
     forward |-> [sym \in DOMAIN forward \cap subset |-> forward[sym]],
     reverse |-> [sym \in DOMAIN reverse \cap subset |-> reverse[sym] \cap subset],
     filetab |-> [file \in DOMAIN filetab |-> filetab[file] \cap subset]]

\* extract trimming to what it has reached before it fails on a start name
\* that is not in symtab.
extractTrimsThenFails ==
    /\ pc = "extract"
    /\ LET t == trim(Reach(start \cap DOMAIN symtab, {}))
       IN  /\ symlist' = t.symlist
           /\ symmap' = t.symmap
           /\ symtab' = t.symtab
           /\ forward' = t.forward
           /\ reverse' = t.reverse
           /\ filetab' = t.filetab
    /\ pc' = IF start \subseteq DOMAIN symtab THEN "print0" ELSE "abort"
    /\ UNCHANGED <<tree, config, oldprog, output>>

\* Lines 557-577.  A start name that is not in symtab ends the run in
\* log.Fatalf (line 572) before trim is reached.
extract ==
    /\ pc = "extract"
    /\ IF start \subseteq DOMAIN symtab
       THEN LET t == trim(Reach(start, {}))
            IN  /\ symlist' = t.symlist
                /\ symmap' = t.symmap
                /\ symtab' = t.symtab
                /\ forward' = t.forward
                /\ reverse' = t.reverse
                /\ filetab' = t.filetab
                /\ pc' = "print0"
       ELSE /\ pc' = "abort"
            /\ UNCHANGED index
    /\ UNCHANGED <<tree, config, oldprog, output>>

(***************************************************************************)
(* print (lines 626-744).                                                  *)
(***************************************************************************)
\* What cc.Printer writes for an expression: a Name prints its Text, an Addr
\* or a Call prints its operand and its arguments.
PrintExpr(x) ==
    [Op |-> x.Op, Text |-> IF x.Op = "Name" THEN x.Text ELSE x.LText, List |-> x.List]

\* The printed expressions of the body or initializer of declaration d.
PrintBody(xs, d) ==
    LET own == SelectSeq(xs, LAMBDA x : x.Owner = d)
    IN  [i \in DOMAIN own |-> PrintExpr(own[i])]

\* printproto with line 647 left out: olddecls is not put back.
printprotoKeepsCopies(fn, ds) ==
    LET olddecls == ds[fn].Decls
        newdecls == [i \in DOMAIN olddecls |-> [olddecls[i] EXCEPT !.Name = ""]]
        during == [ds EXCEPT ![fn].Decls = newdecls]
        text == [Name |-> during[fn].Name, Storage |-> during[fn].Storage,
                 Decls |-> during[fn].Decls]
    IN  [out |-> <<text>>, decl |-> during]

\* Lines 626-648.  nfn is a copy of *fn that shares fn.Type, so line 639 puts
\* the nameless copies of the parameters into fn's own type until line 647
\* puts olddecls back.  The result is the text written and the tree left.
printproto(fn, ds) ==
    LET olddecls == ds[fn].Decls
        newdecls == [i \in DOMAIN olddecls |-> [olddecls[i] EXCEPT !.Name = ""]]
        during == [ds EXCEPT ![fn].Decls = newdecls]
        text == [Name |-> during[fn].Name, Storage |-> during[fn].Storage,
                 Decls |-> during[fn].Decls]
    IN  [out |-> <<text>>, decl |-> [during EXCEPT ![fn].Decls = olddecls]]

\* Lines 650-658.
printfunc(fn, ds, xs) ==
    <<[Name |-> ds[fn].Name, Storage |-> ds[fn].Storage, Decls |-> ds[fn].Decls,
       Body |-> PrintBody(xs, fn)]>>

\* Lines 660-668.
printdata(d, ds, xs) ==
    IF ~ds[d].Init \/ ds[d].Kind = "Enum" THEN <<>>
    ELSE <<[Name |-> ds[d].Name, Storage |-> ds[d].Storage, Kind |-> ds[d].Kind,
            Init |-> PrintBody(xs, d)]>>

EmptyPrinter == [protobuf |-> <<>>, fnbuf |-> <<>>, databuf |-> <<>>]

\* Lines 699-712: one symbol of symlist; acc holds the tree and the printers.
PrintSym(sym, acc, fm) ==
    LET name == FilemapGet(fm, acc.decl[sym].File)
    IN  IF name \notin DOMAIN acc.printers THEN acc
        ELSE IF acc.decl[sym].Kind = "Func"
        THEN IF ~acc.decl[sym].Body THEN acc
             ELSE LET pp == printproto(sym, acc.decl)
                      pf == printfunc(sym, pp.decl, expr)
                  IN  [decl |-> pp.decl,
                       printers |-> [acc.printers EXCEPT
                                        ![name].protobuf = @ \o pp.out,
                                        ![name].fnbuf = @ \o pf]]
        ELSE [acc EXCEPT !.printers[name].databuf = @ \o printdata(sym, acc.decl, expr)]

RECURSIVE PrintSyms(_, _, _)
\* Lines 698-713.
PrintSyms(i, acc, fm) ==
    IF i > Len(symlist) THEN acc
    ELSE PrintSyms(i + 1, PrintSym(symlist[i], acc, fm), fm)

\* Lines 714-734: the file written for one printer.
PrintFile(name, p) ==
    [From |-> IF Contains(name, ".c")
              THEN {from \in DOMAIN filemap : filemap[from] = name}
              ELSE {},
     Proto |-> p.protobuf, Data |-> p.databuf, Fn |-> p.fnbuf]

\* Lines 675-735: the stage directory written and the tree left behind.
PrintAll(fm) ==
    LET names == {fm[f] : f \in DOMAIN fm}
        acc == PrintSyms(1, [decl |-> decl, printers |-> [n \in names |-> EmptyPrinter]],
                         fm)
    IN  [dir |-> [n \in names |-> PrintFile(n, acc.printers[n])], decl |-> acc.decl]

PrintPcs == {"print0", "print1", "print2", "print3", "print4", "print5"}
AfterPrint ==
    [p \in PrintPcs |->
        CASE p = "print0" -> "static"
          [] p = "print1" -> "rename"
          [] p = "print2" -> "addcursym"
          [] p = "print3" -> "addctxt"
          [] p = "print4" -> "rmPS"
          [] p = "print5" -> "diff"]
\* The positions of main right after a print, with the prints main has made.
PrintedPcs == {AfterPrint[p] : p \in PrintPcs}
PrintsDone ==
    [p \in PrintedPcs |->
        CASE p = "static" -> 1
          [] p = "rename" -> 2
          [] p = "addcursym" -> 3
          [] p = "addctxt" -> 4
          [] p = "rmPS" -> 5
          [] p = "diff" -> 6]

\* PrintEffect with line 677 left out: generation is not bumped.
PrintEffectSameDir ==
    LET res == PrintAll(filemap)
    IN  /\ stages' = (generation :> res.dir) @@ stages
        /\ generation' = generation
        /\ decl' = res.decl
        /\ UNCHANGED <<expr, config, oldprog, index, patches>>

\* The effect of one call prog.print(filemap): directory l.<generation> is
\* removed and written anew, and generation is bumped.
PrintEffect ==
    LET res == PrintAll(filemap)
    IN  /\ stages' = (generation :> res.dir) @@ stages
        /\ generation' = generation + 1
        /\ decl' = res.decl
        /\ UNCHANGED <<expr, config, oldprog, index, patches>>

print ==
    /\ pc \in PrintPcs
    /\ PrintEffect
    /\ pc' = AfterPrint[pc]

\* A second call of print right after a print, with no transformation in
\* between, as a test of the emitter makes it.
Reprint ==
    /\ pc \in PrintedPcs
    /\ generation - PrintsDone[pc] < MaxReprint
    /\ PrintEffect
    /\ UNCHANGED pc

(***************************************************************************)
(* diff (lines 746-759).                                                   *)
(***************************************************************************)
\* PatchName with the second number left out of the format.
PatchNameOldOnly(a, b) == "d" \o ToString(a) \o ".patch"

\* fmt.Sprintf("d%d%d.patch", a, b)
PatchName(a, b) == "d" \o ToString(a) \o ToString(b) \o ".patch"

\* What diff -urp of two stage directories yields: which stages, and whether
\* they differ.
Patch(a, b) ==
    [old |-> a, new |-> b,
     same |-> a \in DOMAIN stages /\ b \in DOMAIN stages /\ stages[a] = stages[b]]

RECURSIVE PairPatches(_, _)
\* Lines 749-754: ioutil.WriteFile replaces a file of the same name.
PairPatches(i, ps) ==
    IF i >= generation THEN ps
    ELSE PairPatches(i + 1, (PatchName(i - 1, i) :> Patch(i - 1, i)) @@ ps)

diff ==
    /\ pc = "diff"
    /\ patches' = (PatchName(0, generation - 1) :> Patch(0, generation - 1))
                      @@ PairPatches(1, patches)
    /\ pc' = "done"
    /\ UNCHANGED <<tree, config, oldprog, index, generation, stages>>

\* diff called by a driver that has made fewer prints than main makes.
diffEarly ==
    /\ pc \in PrintedPcs \ {"diff"}
    /\ patches' = (PatchName(0, generation - 1) :> Patch(0, generation - 1))
                      @@ PairPatches(1, patches)
    /\ pc' = "done"
    /\ UNCHANGED <<tree, config, oldprog, index, generation, stages>>

(***************************************************************************)
(* static (lines 761-778).                                                 *)
(***************************************************************************)
\* Lines 764-773: the flag static computed for sym.
CanBeStatic(sym, fm) ==
    LET dfile == FilemapGet(fm, decl[sym].File)
    IN  \A file \in DOMAIN filetab :
            FilemapGet(fm, file) = dfile \/ sym \notin filetab[file]

\* MakesStatic without the test of start at line 774.
MakesStaticEvenStart(sym, st, fm) == CanBeStatic(sym, fm)

\* Line 774: whether static gives sym static storage.
MakesStatic(sym, st, fm) == CanBeStatic(sym, fm) /\ decl[sym].Name \notin st

static ==
    /\ pc = "static"
    /\ decl' = [d \in Decls |->
                  IF d \in {symlist[i] : i \in DOMAIN symlist} /\ MakesStatic(d, start, filemap)
                  THEN [decl[d] EXCEPT !.Storage = "Static"]
                  ELSE decl[d]]
    /\ pc' = "print1"
    /\ UNCHANGED <<expr, config, oldprog, index, output>>

(***************************************************************************)
(* rename (lines 780-809).                                                 *)
(***************************************************************************)
\* Lines 782-787.
RenameDecls(nn) ==
    [d \in Decls |->
        IF d \in {symlist[i] : i \in DOMAIN symlist} /\ decl[d].Name \in DOMAIN nn
        THEN [decl[d] EXCEPT !.Name = nn[decl[d].Name]]
        ELSE decl[d]]

\* RenameKey with the delete of line 793 left out.
RenameKeyKeepsOld(st, old, new) ==
    IF old \notin DOMAIN st THEN st
    ELSE (new :> st[old]) @@ st

\* Lines 789-794: one pair of the mapping applied to symtab.
RenameKey(st, old, new) ==
    IF old \notin DOMAIN st THEN st
    ELSE (new :> st[old]) @@ [n \in DOMAIN st \ {old} |-> st[n]]

RECURSIVE RenameSymtab(_, _, _, _)
\* Lines 788-795, the pairs taken in the given order.
RenameSymtab(st, nn, order, i) ==
    IF i > Len(order) THEN st
    ELSE RenameSymtab(RenameKey(st, order[i], nn[order[i]]), nn, order, i + 1)

\* Lines 801-807: the Text of one Name node.
RenameText(nn, text) == IF text \in DOMAIN nn THEN nn[text] ELSE text

\* Lines 796-808: every Name node of the tree.
RenameExprs(nn) ==
    [k \in Exprs |->
        LET x == expr[k]
        IN  [x EXCEPT
                !.Text = IF x.Op = "Name" THEN RenameText(nn, @) ELSE @,
                !.LText = IF @ # "" THEN RenameText(nn, @) ELSE @,
                !.List = [i \in DOMAIN @ |-> RenameText(nn, @[i])]]]

\* The orders in which a range over a map with key set S may run.
Orders(S) ==
    {o \in [1..Cardinality(S) -> S] : \A i, j \in 1..Cardinality(S) : o[i] = o[j] => i = j}

rename ==
    /\ pc = "rename"
    /\ decl' = RenameDecls(newnames)
    /\ \E order \in Orders(DOMAIN newnames) :
           symtab' = RenameSymtab(symtab, newnames, order, 1)
    /\ expr' = RenameExprs(newnames)
    /\ pc' = "print2"
    /\ UNCHANGED <<config, oldprog, symlist, symmap, forward, reverse, filetab, output>>

(***************************************************************************)
(* addcursym (lines 909-1021).                                             *)
(***************************************************************************)
\* CursymSeeds with the test of lines 921-923 left out.
CursymSeedsWithDiag ==
    UNION {reverse[symtab[n]] : n \in needcursym}

\* Lines 914-926 with every name resolved.
CursymSeeds ==
    UNION {{sym \in reverse[symtab[n]] : decl[sym].Name # "diag"} : n \in needcursym}

RECURSIVE rCursym(_, _), rCursymEach(_, _)
\* Lines 929-941: the closure r of addcursym.
rCursym(sym, funcs) ==
    IF sym \in funcs THEN funcs
    ELSE IF decl[sym].Name = "diag" THEN funcs
    ELSE rCursymEach(reverse[sym], funcs \cup {sym})
rCursymEach(syms, funcs) ==
    IF syms = {} THEN funcs
    ELSE LET s == CHOOSE x \in syms : TRUE
         IN  rCursymEach(syms \ {s}, rCursym(s, funcs))

RECURSIVE CursymClosure(_, _)
\* Lines 942-944: r is called on the members of funcs.
CursymClosure(todo, funcs) ==
    IF todo = {} THEN funcs
    ELSE LET s == CHOOSE x \in todo : TRUE
         IN  CursymClosure(todo \ {s}, rCursym(s, funcs))

RECURSIVE rCursymVisit(_, _), rCursymVisitEach(_, _)
\* Lines 929-941 with a record of the calls of r that get past the tests of
\* lines 930 and 934.
rCursymVisit(sym, acc) ==
    IF sym \in acc.funcs THEN acc
    ELSE IF decl[sym].Name = "diag" THEN acc
    ELSE rCursymVisitEach(reverse[sym],
                          [funcs |-> acc.funcs \cup {sym}, visits |-> Append(acc.visits, sym)])
rCursymVisitEach(syms, acc) ==
    IF syms = {} THEN acc
    ELSE LET s == CHOOSE x \in syms : TRUE
         IN  rCursymVisitEach(syms \ {s}, rCursymVisit(s, acc))

RECURSIVE CursymClosureVisits(_, _)
\* Lines 942-944.
CursymClosureVisits(todo, acc) ==
    IF todo = {} THEN acc
    ELSE LET s == CHOOSE x \in todo : TRUE
         IN  CursymClosureVisits(todo \ {s}, rCursymVisit(s, acc))

\* Lines 947-961 and 870-884: the new parameter put first, or put in place
\* of a lone void.
AddParam(params, arg0) ==
    IF params[1].Type = "void" THEN <<arg0>> ELSE <<arg0>> \o params

CursymParam == [Name |-> "cursym", Type |-> "LSym*"]
CtxtParam == [Name |-> "ctxt", Type |-> "Link*"]

\* Lines 946-962.
CursymDecls(funcs) ==
    [d \in Decls |->
        IF d \in funcs THEN [decl[d] EXCEPT !.Decls = AddParam(@, CursymParam)]
        ELSE decl[d]]

\* Lines 964-983 and 887-906: the call sites of the functions in funcs.
PatchCalls(xs, funcs, arg) ==
    [k \in Exprs |->
        IF xs[k].Op = "Call" /\ xs[k].XDecl \in symmap /\ xs[k].XDecl \in funcs
        THEN [xs[k] EXCEPT !.List = <<arg>> \o @]
        ELSE xs[k]]

\* Lines 999-1007: the Text of one Name node.
CursymText(text) ==
    IF text \in DOMAIN symtab /\ decl[symtab[text]].Name \in needcursym
    THEN "cursym->text" ELSE text

\* Lines 986-1020: every expression of the tree.
CursymExprs(xs) ==
    [k \in Exprs |->
        LET x == xs[k]
        IN  [x EXCEPT
                !.Text = IF x.Op = "Name" THEN CursymText(@)
                         ELSE IF /\ x.XDecl # Nil
                                 /\ x.XDecl \in symmap
                                 /\ decl[x.XDecl].Name \in needcursym
                         THEN "cursym->text" ELSE @,
                !.LText = IF @ # "" THEN CursymText(@) ELSE @,
                !.List = [i \in DOMAIN @ |-> CursymText(@[i])]]]

\* A name of needcursym that is not in symtab leaves sym nil at line 915, and
\* line 917 ends the run dereferencing it.
addcursym ==
    /\ pc = "addcursym"
    /\ IF needcursym \subseteq DOMAIN symtab
       THEN LET funcs == CursymClosure(CursymSeeds, CursymSeeds)
            IN  /\ decl' = CursymDecls(funcs)
                /\ expr' = CursymExprs(PatchCalls(expr, funcs, "cursym"))
                /\ pc' = "print3"
       ELSE /\ pc' = "abort"
            /\ UNCHANGED tree
    /\ UNCHANGED <<config, oldprog, index, output>>

(***************************************************************************)
(* addctxt (lines 811-907).                                                *)
(***************************************************************************)
\* Lines 818-824: in the plain preorder walk curfunc is the last function
\* definition met so far; nothing sets it back to nil.
PreorderCurfunc(x) ==
    LET defs == {d \in Decls : d <= x.Owner /\ HasBody(d)}
    IN  IF defs = {} THEN Nil ELSE CHOOSE d \in defs : \A e \in defs : e <= d

\* Lines 831-835: whether a Name node names a field of Link.
CtxtName(text) == text \in DOMAIN symtab /\ decl[symtab[text]].Name \in fields

\* Lines 841-847: whether the operand of an Addr or Call is a field of Link.
CtxtOperand(x) ==
    x.Op # "Name" /\ x.XDecl # Nil /\ x.XDecl \in symmap /\ decl[x.XDecl].Name \in fields

\* Whether the walk of lines 817-853 marks curfunc at expression x.
CtxtMarks(x) ==
    \/ x.Op = "Name" /\ CtxtName(x.Text)
    \/ CtxtOperand(x)
    \/ x.LText # "" /\ CtxtName(x.LText)
    \/ \E i \in DOMAIN x.List : CtxtName(x.List[i])

CtxtText(text) == IF CtxtName(text) THEN "ctxt->" \o text ELSE text

\* Lines 817-853: the expressions after the first walk.
CtxtExprs(xs) ==
    [k \in Exprs |->
        LET x == xs[k]
        IN  [x EXCEPT
                !.Text = IF x.Op = "Name" THEN CtxtText(@)
                         ELSE IF CtxtOperand(x) THEN "ctxt->" \o @ ELSE @,
                !.LText = IF @ # "" THEN CtxtText(@) ELSE @,
                !.List = [i \in DOMAIN @ |-> CtxtText(@[i])]]]

\* Lines 838 and 850: the functions the first walk puts into funcs.
CtxtSeeds == {PreorderCurfunc(expr[k]) : k \in {j \in Exprs : CtxtMarks(expr[j])}}

RECURSIVE rCtxt(_, _), rCtxtEach(_, _)
\* Lines 856-864: the closure r of addctxt.
rCtxt(sym, funcs) ==
    IF sym \in funcs THEN funcs
    ELSE rCtxtEach(reverse[sym], funcs \cup {sym})
rCtxtEach(syms, funcs) ==
    IF syms = {} THEN funcs
    ELSE LET s == CHOOSE x \in syms : TRUE
         IN  rCtxtEach(syms \ {s}, rCtxt(s, funcs))

RECURSIVE CtxtClosure(_, _)
\* Lines 865-867.
CtxtClosure(todo, funcs) ==
    IF todo = {} THEN funcs
    ELSE LET s == CHOOSE x \in todo : TRUE
         IN  CtxtClosure(todo \ {s}, rCtxt(s, funcs))

\* Lines 869-885 for the members of funcs in done.
CtxtDecls(done) ==
    [d \in Decls |->
        IF d \in done THEN [decl[d] EXCEPT !.Decls = AddParam(@, CtxtParam)]
        ELSE decl[d]]

\* A reference to a field of Link ahead of every function definition marks
\* the nil curfunc; the range of line 869 then ends the run at line 880 when it
\* comes to nil, with the functions it took before that already changed.
addctxt ==
    /\ pc = "addctxt"
    /\ LET funcs == CtxtClosure(CtxtSeeds, CtxtSeeds)
       IN  IF Nil \notin funcs
           THEN /\ decl' = CtxtDecls(funcs)
                /\ expr' = PatchCalls(CtxtExprs(expr), funcs, "ctxt")
                /\ pc' = "print4"
           ELSE /\ \E done \in SUBSET (funcs \ {Nil}) : decl' = CtxtDecls(done)
                /\ expr' = CtxtExprs(expr)
                /\ pc' = "abort"
    /\ UNCHANGED <<config, oldprog, index, output>>

(***************************************************************************)
(* rmPS (lines 1023-1043).                                                 *)
(***************************************************************************)
\* Lines 1031-1040: the Text of one Name node.
PSText(text) ==
    IF text \in DOMAIN symtab /\ decl[symtab[text]].Name \in {"S", "P"}
    THEN "nil" ELSE text

rmPS ==
    /\ pc = "rmPS"
    /\ expr' = [k \in Exprs |->
                  LET x == expr[k]
                  IN  [x EXCEPT
                          !.Text = IF x.Op = "Name" THEN PSText(@) ELSE @,
                          !.LText = IF @ # "" THEN PSText(@) ELSE @,
                          !.List = [i \in DOMAIN @ |-> PSText(@[i])]]]
    /\ pc' = "print5"
    /\ UNCHANGED <<decl, config, oldprog, index, output>>

(***************************************************************************)
(* The older main (lines 1-270): symtab, dep, extract and print over the   *)
(* tables all and deps.  iomap is read from filemap.                       *)
(***************************************************************************)
\* A reference in the older program: by name, by a call or by address to any
\* declaration, or a call whose callee is no identifier.
OldRefs(ds, owners) ==
    {MkName(o, ds[t].Name) : o \in owners, t \in Decls}
        \cup {MkOp(o, "Call", ds[t].Name, t) : o \in owners, t \in Decls}
        \cup {MkOp(o, "Call", "", Nil) : o \in owners}
        \cup {MkOp(o, "Addr", ds[t].Name, t) : o \in owners, t \in {1, NDecl}}

\* One initialized global followed by function definitions.
GlobalFirstDecls ==
    [d \in Decls |->
        IF d = 1
        THEN MkDecl("curtext", "Int", FALSE, TRUE, "obj.c", "", <<>>)
        ELSE MkDecl(FuncNames[d - 1], "Func", TRUE, FALSE, SrcFiles[d - 1], "",
                    ParamLists[d - 1])]

GlobalFirstRefs ==
    {MkName(o, "span") : o \in Decls}
        \cup {MkOp(o, "Call", "span", 2) : o \in Decls}
        \cup {MkOp(o, "Call", "", Nil) : o \in Decls}

\* The chain program with every pair of references from its function bodies,
\* and the program that starts with the global.
OldScenarios ==
    {Scenario(ChainDecls("curtext"), xs, st, EmptyMap, {}, {}, DefaultFilemap) :
        xs \in {ys \in [Exprs -> OldRefs(ChainDecls("curtext"), Funcs)] : Preordered(ys)},
        st \in {{"span"}, {"span", "asmout"}, {"main"}}}
      \cup
    {Scenario(GlobalFirstDecls, xs, {"span"}, EmptyMap, {}, {}, DefaultFilemap) :
        xs \in {ys \in [Exprs -> GlobalFirstRefs] : Preordered(ys)}}

InitOld ==
    /\ \E s \in OldScenarios :
        /\ decl = s.decl
        /\ expr = s.expr
        /\ start = s.start
        /\ newnames = s.newnames
        /\ needcursym = s.needcursym
        /\ fields = s.fields
        /\ filemap = s.filemap
    /\ symlist = <<>>
    /\ symmap = {}
    /\ symtab = EmptyMap
    /\ forward = EmptyMap
    /\ reverse = EmptyMap
    /\ filetab = EmptyMap
    /\ generation = 0
    /\ stages = EmptyMap
    /\ patches = EmptyMap
    /\ all = {}
    /\ deps = EmptyMap
    /\ extracted = <<>>
    /\ pc = "symtabOld"

\* symtab (lines 229-240): every declaration of function type.
symtabOld ==
    /\ pc = "symtabOld"
    /\ all' = {d \in Decls : IsFunc(d)}
    /\ pc' = "depOld"
    /\ UNCHANGED <<tree, config, index, output, deps, extracted>>

\* symbols.lookup (lines 242-249): a range over the map returns any key with
\* the name, nil when there is none.
lookup(syms, name) ==
    LET found == {d \in syms : decl[d].Name = name}
    IN  IF found = {} THEN {Nil} ELSE found

\* The loop over deps[curfunc] and the append that dep ends each case with.
AppendDep(t, f, s) ==
    LET old == IF f \in DOMAIN t THEN t[f] ELSE <<>>
    IN  IF \E i \in DOMAIN old : old[i] = s THEN t ELSE (f :> Append(old, s)) @@ t

\* dep's curfunc at an expression (lines 176-179): the last declaration of
\* function type the walk has met; never reset.
DepCurfunc(x) ==
    LET met == {d \in Decls : d <= x.Owner /\ IsFunc(d)}
    IN  IF met = {} THEN Nil ELSE CHOOSE d \in met : \A e \in met : e <= d

\* deps[x] = nil (line 177) for every function declaration met so far.
DepKeys(t, owner) ==
    [d \in {e \in Decls : e <= owner /\ IsFunc(e)} \ DOMAIN t |-> <<>>] @@ t

\* case cc.Name (lines 183-197), for every table in T and every result of
\* the lookup.
DepName(T, f, text) ==
    UNION {{IF s = Nil THEN t ELSE AppendDep(t, f, s) : s \in lookup(all, text)} : t \in T}

\* case cc.Addr (lines 199-214) and case cc.Call (lines 216-222).
DepNode(T, f, x) ==
    CASE x.Op = "Name" -> DepName(T, f, x.Text)
      [] x.Op = "Addr" -> IF x.XDecl = Nil \/ ~IsFunc(x.XDecl)
                          THEN T
                          ELSE {AppendDep(t, f, x.XDecl) : t \in T}
      [] x.Op = "Call" -> {AppendDep(t, f, x.XDecl) : t \in T}

RECURSIVE DepArgs(_, _, _, _)
DepArgs(T, f, list, i) ==
    IF i > Len(list) THEN T ELSE DepArgs(DepName(T, f, list[i]), f, list, i + 1)

\* The callback on an expression and then on its operand and arguments.
DepExpr(T, x) ==
    LET f == DepCurfunc(x)
        T1 == DepNode(T, f, x)
        T2 == IF x.LText # "" THEN DepName(T1, f, x.LText) ELSE T1
    IN  DepArgs(T2, f, x.List, 1)

\* curfunc.Name (lines 184 and 200) with curfunc still nil.
DepPanics(x) ==
    /\ DepCurfunc(x) = Nil
    /\ x.Op \in {"Name", "Addr"} \/ x.LText # "" \/ x.List # <<>>

\* The walk from expression k on: the tables it can end with, and whether it
\* panicked.
RECURSIVE DepWalk(_, _)
DepWalk(T, k) ==
    IF k > NExpr
    THEN [tables |-> {DepKeys(t, NDecl) : t \in T}, panic |-> FALSE]
    ELSE LET x == expr[k]
             T0 == {DepKeys(t, x.Owner) : t \in T}
         IN  IF DepPanics(x)
             THEN [tables |-> IF x.Op = "Call" THEN DepNode(T0, Nil, x) ELSE T0,
                   panic |-> TRUE]
             ELSE DepWalk(DepExpr(T0, x), k + 1)

\* dep (lines 168-226).
depOld ==
    /\ pc = "depOld"
    /\ LET w == DepWalk({EmptyMap}, 1)
       IN  /\ deps' \in w.tables
           /\ pc' = IF w.panic THEN "abort" ELSE "extractOld"
    /\ UNCHANGED <<tree, config, index, output, all, extracted>>

\* r (lines 255-266) and its loop over deps[f]; deps[f] of a non-key is nil.
RECURSIVE rOld(_, _)
RECURSIVE rOldEach(_, _, _)
rOld(f, subset) ==
    IF \E i \in DOMAIN subset : subset[i] = f
    THEN subset
    ELSE rOldEach(IF f \in DOMAIN deps THEN deps[f] ELSE <<>>, 1, Append(subset, f))

rOldEach(list, i, subset) ==
    IF i > Len(list) THEN subset ELSE rOldEach(list, i + 1, rOld(list[i], subset))

\* extract (lines 253-270): the loop over fns.
RECURSIVE extractFns(_, _, _)
extractFns(fns, i, subset) ==
    IF i > Len(fns) THEN subset ELSE extractFns(fns, i + 1, rOld(fns[i], subset))

\* main (lines 94-98): deps.lookup of every start symbol, then extract.
\* symbols.lookup reads s.Name of every key it meets: with a nil key in deps
\* it panics unless it finds the name first.
extractOld ==
    /\ pc = "extractOld"
    /\ \E panics \in BOOLEAN :
        IF panics
        THEN /\ Nil \in DOMAIN deps /\ start # {}
             /\ pc' = "abort"
             /\ UNCHANGED extracted
        ELSE /\ Nil \in DOMAIN deps
                   => \A v \in start : lookup(DOMAIN deps \ {Nil}, v) # {Nil}
             /\ \E order \in Orders(start) :
                \E syms \in [DOMAIN order -> Decls \cup {Nil}] :
                    /\ \A i \in DOMAIN order :
                           syms[i] \in lookup(DOMAIN deps \ {Nil}, order[i])
                    /\ extracted' = extractFns(syms, 1, <<>>)
             /\ pc' = "printOld"
    /\ UNCHANGED <<tree, config, index, output, all, deps>>

\* pp.Print(v) of one declaration.
PrintDeclOld(d) ==
    [Name |-> decl[d].Name, Kind |-> decl[d].Kind, Storage |-> decl[d].Storage,
     Decls |-> decl[d].Decls, Init |-> decl[d].Init, Body |-> PrintBody(expr, d)]

\* The output file of a declaration (lines 139-147).
OldFile(d) ==
    IF decl[d].File \in DOMAIN filemap THEN filemap[decl[d].File]
    ELSE IF Contains(decl[d].File, ".h") THEN "l.h"
    ELSE "zzz.c"

\* The loop of print (lines 131-163) from element i on: v.Span of a nil
\* element panics.  Every modelled file is under lddir.
RECURSIVE PrintOldWalk(_, _, _)
PrintOldWalk(fns, i, files) ==
    IF i > Len(fns) THEN [files |-> files, panic |-> FALSE]
    ELSE IF fns[i] = Nil THEN [files |-> files, panic |-> TRUE]
    ELSE LET v == fns[i]
             name == OldFile(v)
             f == IF name \in DOMAIN files
                  THEN files[name]
                  ELSE [Includes |-> Contains(decl[v].File, ".c"), Text |-> <<>>]
         IN  PrintOldWalk(fns, i + 1,
                 (name :> [f EXCEPT !.Text = Append(@, PrintDeclOld(v))]) @@ files)

\* print(subset, "liblink") (lines 125-166).
printOld ==
    /\ pc = "printOld"
    /\ LET w == PrintOldWalk(extracted, 1, EmptyMap)
       IN  /\ stages' = ("liblink" :> w.files) @@ stages
           /\ pc' = IF w.panic THEN "abort" ELSE "done"
    /\ UNCHANGED <<tree, config, index, oldprog, generation, patches>>

\* The older main (lines 82-100).
NextOld ==
    \/ symtabOld
    \/ depOld
    \/ extractOld
    \/ printOld

SpecOld == InitOld /\ [][NextOld]_vars

(***************************************************************************)
(* main (lines 388-414).                                                   *)
(***************************************************************************)
Next ==
    \/ NewProg
    \/ extract
    \/ print
    \/ static
    \/ rename
    \/ addcursym
    \/ addctxt
    \/ rmPS
    \/ diff

Spec == Init /\ [][Next]_vars

\* main, and a driver that also prints a second time.
SpecReprint == InitEmit /\ [][Next \/ Reprint]_vars

\* main, and a driver that stops after any of the prints and calls diff.
SpecDiff == InitDiff /\ [][Next \/ diffEarly]_vars

(***************************************************************************)
(* Properties.                                                             *)
(***************************************************************************)
Range(f) == {f[x] : x \in DOMAIN f}

RECURSIVE Closure(_, _)
\* The least set that holds S and is closed under the edges of graph.
Closure(S, graph) ==
    LET T == S \cup UNION {graph[x] : x \in S \cap DOMAIN graph}
    IN  IF T = S THEN S ELSE Closure(T, graph)

\* C1: when extract returns, the live symbols (symlist, symmap) are exactly
\* the declarations reachable from the start symbols over the forward edges
\* the graph had, and symtab, forward, reverse (keys and members) and every
\* set of filetab hold no declaration outside of them.
ExtractionClosure ==
    [][pc = "extract" /\ pc' = "print0" =>
        LET live == Closure({symtab[n] : n \in start}, forward)
        IN  /\ Range(symlist') = live
            /\ symmap' = live
            /\ Range(symtab') \subseteq live
            /\ DOMAIN forward' \subseteq live
            /\ DOMAIN reverse' \subseteq live
            /\ \A a \in DOMAIN forward' : forward'[a] \subseteq live
            /\ \A a \in DOMAIN reverse' : reverse'[a] \subseteq live
            /\ \A file \in DOMAIN filetab' : filetab'[file] \subseteq live]_vars

\* C1 witness: extract has returned on a graph with a cycle between two
\* functions, keeping them and dropping the rest.
ExtractionClosureWitness ==
    /\ pc = "print0"
    /\ Len(symlist) = 2
    /\ \E a, b \in symmap : a # b /\ b \in forward[a] /\ a \in forward[b]
    /\ DOMAIN reverse = symmap
    /\ Cardinality(DOMAIN symtab) = 2

\* C2: once NewProg has built the graph, and after extract has trimmed it,
\* for tracked symbols a and b, b is in forward[a] exactly when a is in
\* reverse[b].
GraphSymmetry ==
    pc # "NewProg" =>
        \A a, b \in symmap :
            (a \in DOMAIN forward /\ b \in forward[a])
                <=> (b \in DOMAIN reverse /\ a \in reverse[b])

\* C2 witness: a trimmed graph that still has an edge from a call or an
\* address-of, between two different symbols.
GraphSymmetryWitness ==
    /\ pc = "static"
    /\ Len(symlist) < NDecl
    /\ \E k \in Exprs :
        /\ expr[k].Op # "Name"
        /\ expr[k].XDecl # expr[k].Owner
        /\ expr[k].XDecl \in forward[expr[k].Owner]
        /\ expr[k].Owner \in reverse[expr[k].XDecl]

\* Whether declaration d has cursym as its first parameter.
HasCursym(d) == Len(decl[d].Decls) > 0 /\ decl[d].Decls[1] = CursymParam

RECURSIVE Callers(_)
\* The least set that holds S and every function other than diag that uses a
\* member of it.
Callers(S) ==
    LET T == S \cup {f \in UNION {reverse[x] : x \in S \cap DOMAIN reverse} :
                        decl[f].Name # "diag"}
    IN  IF T = S THEN S ELSE Callers(T)

\* The functions other than diag that refer to a global of needcursym, and
\* their callers, and the callers of those.
NeedCursym ==
    Callers({f \in UNION {reverse[symtab[n]] : n \in needcursym \cap DOMAIN symtab} :
                decl[f].Name # "diag"})

\* C3: when addcursym has run, the functions that have the new first
\* parameter are exactly the functions other than diag that refer to a global
\* of needcursym or call, through any number of calls, one that does; and
\* every call of one of them has the new first argument.
ThreadingClosure ==
    pc = "print3" =>
        /\ \A d \in Decls : HasCursym(d) <=> d \in NeedCursym
        /\ \A k \in Exprs :
               expr[k].Op = "Call" /\ expr[k].XDecl \in NeedCursym =>
                   Len(expr[k].List) > 0 /\ expr[k].List[1] = "cursym"

\* The output file that input file f is routed to.
Destination(f) == FilemapGet(filemap, f)

\* The functions that refer to sym from a file routed to another output file
\* than the one sym goes to.
OutsideUsers(sym) ==
    {f \in reverse[sym] : Destination(decl[f].File) # Destination(decl[sym].File)}

\* C4: static makes a symbol that is not a start symbol static when every
\* reference to it comes from a file routed to its own output file, and
\* leaves a symbol that is referenced from a file routed to another output
\* file as visible as it was.
StaticSoundness ==
    [][pc = "static" =>
        \A sym \in symmap :
            /\ (OutsideUsers(sym) = {} /\ decl[sym].Name \notin start)
                   => decl'[sym].Storage = "Static"
            /\ (OutsideUsers(sym) # {} /\ decl[sym].Storage # "Static")
                   => decl'[sym].Storage # "Static"]_vars

\* C5: no step of the run turns a declaration static except static, and
\* static does so only for a declaration whose name is not a start name; so a
\* declaration named by the start set is as visible after rename and the
\* threading passes as it was before static.
StartStaysExternal ==
    [][\A d \in Decls :
          (decl[d].Storage # "Static" /\ decl'[d].Storage = "Static")
              => (pc = "static" /\ decl[d].Name \notin start)]_vars

\* C5 witness: the run has ended with the start symbol span, renamed span7,
\* still not static while static has made another live symbol static.
StartStaysExternalWitness ==
    /\ pc = "done"
    /\ "span" \in start
    /\ \E d, e \in symmap :
        /\ decl[d].Name = "span7"
        /\ decl[d].Storage # "Static"
        /\ CanBeStatic(d, filemap)
        /\ decl[e].Storage = "Static"

\* The Text of every Name node of the tree xs.
NameTexts(xs) ==
    {xs[k].Text : k \in {j \in Exprs : xs[j].Op = "Name"}}
        \cup {xs[k].LText : k \in {j \in Exprs : xs[j].LText # ""}}
        \cup UNION {Range(xs[k].List) : k \in Exprs}

\* What C6 says of one pair old -> new of the mapping.
Renamed(old, new) ==
    /\ old \notin DOMAIN symtab'
    /\ new \in DOMAIN symtab'
    /\ symtab'[new] = symtab[old]
    /\ old \notin NameTexts(expr')

\* C6 as stated: after rename, for every pair old -> new of the mapping whose
\* old name was in symtab, old is not in symtab, new is and maps to the
\* declaration old mapped to, and no Name node has old as its text.
RenameAtomicity ==
    [][pc = "rename" =>
        \A old \in DOMAIN newnames \cap DOMAIN symtab : Renamed(old, newnames[old])]_vars

\* No new name is itself a key, and no two keys share a new name.
Unchained(nn) ==
    /\ Range(nn) \cap DOMAIN nn = {}
    /\ \A a, b \in DOMAIN nn : nn[a] = nn[b] => a = b

\* C6 amended: the same, for a mapping in which no new name is a key and no
\* two keys have the same new name.
RenameAtomicityUnchained ==
    [][pc = "rename" /\ Unchained(newnames) =>
        \A old \in DOMAIN newnames \cap DOMAIN symtab : Renamed(old, newnames[old])]_vars

\* C6 witness: rename has moved the entry of asmout to span7 under a mapping
\* of two pairs, and a reference that read asmout now reads span7.
RenameAtomicityWitness ==
    /\ pc = "print2"
    /\ Unchained(newnames)
    /\ Cardinality(DOMAIN newnames) = 2
    /\ "asmout" \in DOMAIN newnames
    /\ newnames["asmout"] = "span7"
    /\ "span7" \in DOMAIN symtab
    /\ decl[symtab["span7"]].Name = "span7"
    /\ "asmout" \notin DOMAIN symtab
    /\ "span7" \in NameTexts(expr)

\* C7: when a key of the rename mapping is not in symtab, rename ends the run.
RenameMissingAborts ==
    [][pc = "rename" /\ ~(DOMAIN newnames \subseteq DOMAIN symtab) => pc' = "abort"]_vars

\* C8: when a start name is not in symtab, extract ends the run and leaves
\* the tree and every index as they were; when a name of needcursym is not in
\* symtab, addcursym ends the run and leaves the tree (parameter lists, call
\* sites, references) and every index as they were.
AbortMutatesNothing ==
    [][/\ (pc = "extract" /\ ~(start \subseteq DOMAIN symtab))
            => (pc' = "abort" /\ UNCHANGED <<tree, index, output>>)
       /\ (pc = "addcursym" /\ ~(needcursym \subseteq DOMAIN symtab))
            => (pc' = "abort" /\ UNCHANGED <<tree, index, output>>)]_vars

\* C8 witness: the run has ended in extract, on a start name that is not in
\* symtab, with the other start symbol in symtab and having something to
\* reach.
AbortMutatesNothingWitness ==
    /\ pc = "abort"
    /\ generation = 0
    /\ ~(start \subseteq DOMAIN symtab)
    /\ \E n \in start \cap DOMAIN symtab : forward[symtab[n]] \ {symtab[n]} # {}
    /\ Len(symlist) = NDecl

\* C9: a call of print leaves symlist, symmap, symtab, the graph, filetab
\* and the whole tree, so every name and every parameter list, as they were
\* and bumps generation; and a call of print that follows a print with no
\* transformation in between writes a stage directory that holds, file for
\* file, what the directory before it holds.
EmissionIdempotent ==
    [][generation' # generation =>
        /\ generation' = generation + 1
        /\ UNCHANGED <<tree, index>>
        /\ pc \in PrintedPcs => /\ DOMAIN stages' = DOMAIN stages \cup {generation}
                                /\ stages'[generation] = stages[generation - 1]]_vars

\* C9 witness: print has been called a second time after static, and both
\* directories hold the prototype and the body of a function with a named
\* parameter.
EmissionIdempotentWitness ==
    /\ pc = "rename"
    /\ generation = 3
    /\ stages[2] = stages[1]
    /\ \E n \in DOMAIN stages[2] :
        /\ Len(stages[2][n].Proto) > 0
        /\ \E i \in DOMAIN stages[2][n].Fn :
              /\ stages[2][n].Fn[i].Decls = <<IntParam>>
              /\ stages[2][n].Proto[i].Decls = <<[Name |-> "", Type |-> "int"]>>

\* Whether the text of a file holds declaration d as a function or as data.
Emitted(d, text) ==
    \/ \E i \in DOMAIN text.Fn : text.Fn[i].Name = decl[d].Name
    \/ \E i \in DOMAIN text.Data : text.Data[i].Name = decl[d].Name

\* Whether print has something to write for declaration d.
Printable(d) ==
    \/ HasBody(d)
    \/ ~IsFunc(d) /\ decl[d].Init /\ decl[d].Kind # "Enum"

\* C10: in the stage directory a print has just written, a live declaration
\* whose input file is not in the file map is in zzz.c when that file is a
\* .c file and in l.h when it is a header.
UnmappedEmitted ==
    pc \in PrintedPcs =>
        \A i \in DOMAIN symlist :
            LET d == symlist[i]
                name == IF Contains(decl[d].File, ".h") THEN "l.h" ELSE "zzz.c"
                dir == stages[generation - 1]
            IN  (Printable(d) /\ decl[d].File \notin DOMAIN filemap)
                    => (name \in DOMAIN dir /\ Emitted(d, dir[name]))

\* The positions of main, in the order C11 gives the stages.
MainOrder ==
    <<"NewProg", "extract", "print0", "static", "print1", "rename", "print2",
      "addcursym", "print3", "addctxt", "print4", "rmPS", "print5", "diff", "done">>

\* The position main goes to from position p when the run does not end there.
Successor(p) ==
    LET i == CHOOSE j \in DOMAIN MainOrder : MainOrder[j] = p
    IN  MainOrder[i + 1]

\* C11: the run goes through extract, static, rename, addcursym, addctxt and
\* rmPS in that order with one print after each, unless it ends in a fatal
\* error; the k-th print writes the stage numbered k-1, which no print has
\* written before; and no step changes a stage that is already written.
StageOrder ==
    [][/\ pc' # pc => (pc' = "abort" \/ pc' = Successor(pc))
       /\ pc \in PrintPcs =>
            /\ pc = "print" \o ToString(generation)
            /\ generation \notin DOMAIN stages
            /\ DOMAIN stages' = DOMAIN stages \cup {generation}
            /\ generation' = generation + 1
       /\ pc \notin PrintPcs => UNCHANGED generation /\ DOMAIN stages' = DOMAIN stages
       /\ \A n \in DOMAIN stages : stages'[n] = stages[n]]_vars

\* C11 witness: main has run to its end, the six stages 0..5 are written, and
\* rename and addcursym have each changed what is printed.
StageOrderWitness ==
    /\ pc = "done"
    /\ generation = 6
    /\ DOMAIN stages = 0..5
    /\ stages[1] # stages[2]
    /\ stages[2] # stages[3]

\* What C12 says of the patches diff leaves after n = generation prints.
PatchesOf(n) ==
    /\ \A i \in 1..(n - 1) :
          /\ PatchName(i - 1, i) \in DOMAIN patches
          /\ patches[PatchName(i - 1, i)] = Patch(i - 1, i)
    /\ PatchName(0, n - 1) \in DOMAIN patches
    /\ patches[PatchName(0, n - 1)] = Patch(0, n - 1)
    /\ Cardinality(DOMAIN patches) = n

\* C12 as stated: after n prints, diff has left n patches with n names: one
\* for every pair (i-1, i) with 1 <= i <= n-1 and one for stage 0 against
\* stage n-1.
DiffArtifacts ==
    pc = "done" => PatchesOf(generation)

\* C12 amended: the same for every n other than 2; after two prints the pair
\* (0, 1) is also the first and the last stage, and diff leaves the one patch
\* d01.patch.
DiffArtifactsDistinct ==
    pc = "done" =>
        IF generation = 2
        THEN DOMAIN patches = {PatchName(0, 1)} /\ patches[PatchName(0, 1)] = Patch(0, 1)
        ELSE PatchesOf(generation)

\* C12 witness: diff has run after the six prints of main and has left six
\* patches, of which the one of static differs and the one of stage 0
\* against stage 5 differs.
DiffArtifactsWitness ==
    /\ pc = "done"
    /\ generation = 6
    /\ Cardinality(DOMAIN patches) = 6
    /\ ~patches["d01.patch"].same
    /\ patches["d05.patch"] = [old |-> 0, new |-> 5, same |-> FALSE]

\* C13: addcursym gives no new parameter to a function named diag, whether
\* diag refers to a global of needcursym itself or calls a function that gets
\* the parameter; and a function gets the parameter only when it is reached
\* from such a reference through callers other than diag.
DenylistExempt ==
    [][pc = "addcursym" =>
        \A d \in Decls :
            /\ decl[d].Name = "diag" => decl'[d].Decls = decl[d].Decls
            /\ decl'[d].Decls # decl[d].Decls => d \in NeedCursym]_vars

\* C13 witness: addcursym has run on a program in which diag itself reads
\* curtext, and diag has no new parameter.
DenylistExemptWitness ==
    /\ pc = "print3"
    /\ \E d \in symmap :
        /\ decl[d].Name = "diag"
        /\ d \in reverse[symtab["curtext"]]
        /\ \E k \in Exprs : expr[k].Owner = d /\ expr[k].Op = "Name"
                               /\ expr[k].Text = "cursym->text"
        /\ ~HasCursym(d)
        /\ decl[d].Decls = <<IntParam>>

\* C14: a threading pass changes the text of a reference only when the
\* reference is in the body of a function of the closure: in addcursym a
\* function other than diag that is reached from a reference to a global of
\* needcursym, in addctxt a function definition; a reference in diag or in an
\* initializer at file scope keeps its text.  Stated of the references of
\* live declarations, the ones print writes.
RewriteInsideClosure ==
    [][\A k \in {j \in Exprs : expr[j].Owner \in symmap} :
          (expr'[k].Text # expr[k].Text \/ expr'[k].LText # expr[k].LText) =>
              /\ pc = "addcursym" => (HasBody(expr[k].Owner) /\ expr[k].Owner \in NeedCursym)
              /\ pc = "addctxt" => HasBody(expr[k].Owner)]_vars

\* The function definitions whose own body holds a reference to a field of
\* Link.
CtxtUsers ==
    {f \in Decls : HasBody(f) /\ \E k \in Exprs : expr[k].Owner = f /\ CtxtMarks(expr[k])}

RECURSIVE UsersOf(_)
\* The least set that holds S and every function that uses a member of it.
UsersOf(S) ==
    LET T == S \cup UNION {reverse[x] : x \in S \cap DOMAIN reverse}
    IN  IF T = S THEN S ELSE UsersOf(T)

\* C15: a function gets the new parameter of addctxt only when its own body
\* holds a reference to a field of Link or it is reached from such a function
\* through callers; a reference in an initializer at file scope that follows
\* a function definition makes no function require the parameter.
SeedsOwnBody ==
    [][pc = "addctxt" =>
        \A d \in Decls : decl'[d].Decls # decl[d].Decls => d \in UsersOf(CtxtUsers)]_vars

\* The parameter list C16 requires of a function of the closure: the new
\* parameter alone when the list was the single void entry, else the new
\* parameter followed by the list.
WithParam(params, new) ==
    IF Len(params) = 1 /\ params[1].Type = "void" THEN <<new>> ELSE <<new>> \o params

\* What C16 says of a pass with the given closure and new parameter.
ParamsThreaded(closure, new) ==
    \A d \in Decls :
        decl'[d].Decls = IF d \in closure THEN WithParam(decl[d].Decls, new)
                         ELSE decl[d].Decls

\* C16: a threading pass that runs to its end puts the new parameter first
\* in the list of every function of the closure, in place of a lone void or
\* ahead of the previous parameters, and leaves every other parameter list
\* as it was.
ParameterPrepended ==
    [][/\ (pc = "addcursym" /\ pc' = "print3") => ParamsThreaded(NeedCursym, CursymParam)
       /\ (pc = "addctxt" /\ pc' = "print4") => ParamsThreaded(UsersOf(CtxtUsers), CtxtParam)]_vars

\* What C17 says of a pass with the given closure and parameter name: a
\* call of a function of the closure has the name as a new first argument and
\* its previous arguments after it, each as it was or with its text rewritten
\* by the pass; every other argument list is as long as it was.
CallsThreaded(closure, name) ==
    \A k \in Exprs :
        IF expr[k].Op = "Call" /\ expr[k].XDecl \in closure
        THEN /\ Len(expr'[k].List) = Len(expr[k].List) + 1
             /\ expr'[k].List[1] = name
             /\ \A i \in DOMAIN expr[k].List :
                    expr'[k].List[i + 1] \in {expr[k].List[i], "cursym->text",
                                              "ctxt->" \o expr[k].List[i]}
        ELSE Len(expr'[k].List) = Len(expr[k].List)

\* C17: a threading pass that runs to its end gives every direct call of a
\* function of the closure one new first argument, the name of the new
\* parameter, ahead of its previous arguments, and gives no other call a new
\* argument.
ArgumentPrepended ==
    [][/\ (pc = "addcursym" /\ pc' = "print3") => CallsThreaded(NeedCursym, "cursym")
       /\ (pc = "addctxt" /\ pc' = "print4") => CallsThreaded(UsersOf(CtxtUsers), "ctxt")]_vars

\* The name a mapping gives to name n.
NewName(nn, n) == IF n \in DOMAIN nn THEN nn[n] ELSE n

\* A mapping under which every declaration can keep an entry of its own: no
\* two keys share a new name, and a new name is a key or is not in symtab.
Renamable(nn) ==
    /\ \A a, b \in DOMAIN nn : nn[a] = nn[b] => a = b
    /\ \A a \in DOMAIN nn : nn[a] \in DOMAIN nn \/ nn[a] \notin DOMAIN symtab

\* C18: one call of rename gives every live declaration the new name of the
\* name it had, once, and moves every entry of symtab once, from its name to
\* the new name of that name, a mapping a -> b, b -> c included and whatever
\* the order of the range over the mapping; no entry is lost.
RenameOnce ==
    [][pc = "rename" /\ Renamable(newnames) =>
        /\ \A d \in symmap : decl'[d].Name = NewName(newnames, decl[d].Name)
        /\ DOMAIN symtab' = {NewName(newnames, n) : n \in DOMAIN symtab}
        /\ \A n \in DOMAIN symtab : symtab'[NewName(newnames, n)] = symtab[n]]_vars

\* Whether no symbol comes twice in the sequence.
NoRepeat(seq) == \A i, j \in DOMAIN seq : seq[i] = seq[j] => i = j

\* C19: on the graph NewProg has built, cycles included, the traversal of
\* extract comes to an end having marked and expanded every symbol reachable
\* from the start symbols once and no other; and on the graph addcursym
\* works on, its traversal comes to an end having expanded no symbol twice
\* and having put only live symbols into funcs.
TraversalOnce ==
    /\ (pc = "extract" /\ start \subseteq DOMAIN symtab) =>
          LET v == ReachVisits(start, [subset |-> {}, visits |-> <<>>])
          IN  /\ NoRepeat(v.visits)
              /\ Range(v.visits) = v.subset
              /\ v.subset = Closure({symtab[n] : n \in start}, forward)
              /\ v.subset = Reach(start, {})
    /\ (pc = "addcursym" /\ needcursym \subseteq DOMAIN symtab) =>
          LET v == CursymClosureVisits(CursymSeeds, [funcs |-> CursymSeeds, visits |-> <<>>])
          IN  /\ NoRepeat(v.visits)
              /\ Range(v.visits) \subseteq v.funcs
              /\ v.funcs \subseteq symmap
              /\ v.funcs = CursymClosure(CursymSeeds, CursymSeeds)

\* C19 witness: extract has run from two start symbols on a graph in which a
\* function uses itself and another symbol, and has kept them.
TraversalOnceWitness ==
    /\ pc = "print0"
    /\ Cardinality(start) = 2
    /\ \E a \in symmap : a \in forward[a] /\ forward[a] \ {a} # {}

\* The tracked symbols a reference resolves to: the declaration that has the
\* name of a Name node (of the node itself, of the operand, of an argument),
\* and the declaration the operand of an Addr or Call is bound to.
RefTargets(x) ==
    LET texts == (IF x.Op = "Name" THEN {x.Text} ELSE {})
                     \cup (IF x.LText # "" THEN {x.LText} ELSE {})
                     \cup Range(x.List)
        bound == IF x.Op # "Name" THEN {x.XDecl} ELSE {}
    IN  ({Resolve(decl, t) : t \in texts} \cup bound) \ {Nil}

\* The symbols referred to from inside the body of f.
BodyTargets(f) ==
    IF HasBody(f)
    THEN UNION {RefTargets(expr[k]) : k \in {j \in Exprs : expr[j].Owner = f}}
    ELSE {}

\* C20: when NewProg returns, s is in forward[f] and f in reverse[s] exactly
\* when f is a function definition whose body holds a name, address-of or
\* call that resolves to the tracked symbol s, however many of them; a
\* reference outside of every function body and one that resolves to nothing
\* give no edge.
EdgesFromBodies ==
    pc = "extract" =>
        \A f, s \in Decls :
            /\ s \in forward[f] <=> s \in BodyTargets(f)
            /\ f \in reverse[s] <=> s \in BodyTargets(f)

\* What is reachable from the set S through deps.
RECURSIVE DepsReach(_)
DepsReach(S) ==
    LET T == S \cup UNION {Range(deps[f]) : f \in S \cap DOMAIN deps}
    IN  IF T = S THEN S ELSE DepsReach(T)

\* The function declarations the older main hands to extract.
StartFns == {d \in Decls : IsFunc(d) /\ decl[d].Name \in start}
StartResolves == \A v \in start : \E d \in StartFns : decl[d].Name = v

\* C21: when the older extract has been called with function declarations,
\* the list it returned has no duplicates, holds exactly the declarations
\* reachable from them through deps, and holds function declarations only.
OldExtractFunctions ==
    (pc = "printOld" /\ StartResolves)
        => /\ NoRepeat(extracted)
           /\ Range(extracted) = DepsReach(StartFns)
           /\ \A e \in Range(extracted) : e # Nil /\ IsFunc(e)

\* C22: from the end of NewProg on the indices agree: symlist, symmap and the
\* keys of forward and of reverse hold the same declarations, every value of
\* symtab is one of them, and so is every member of a forward or reverse set.
IndicesAgree ==
    pc # "NewProg"
        => /\ Range(symlist) = symmap
           /\ DOMAIN forward = symmap
           /\ DOMAIN reverse = symmap
           /\ Range(symtab) \subseteq symmap
           /\ \A sym \in symmap : forward[sym] \subseteq symmap /\ reverse[sym] \subseteq symmap

\* extract has trimmed a declaration away and kept a dependency.
IndicesAgreeWitness ==
    /\ pc = "print0"
    /\ symmap # Decls
    /\ \E sym \in symmap : forward[sym] \ {sym} # {}

\* The names of the live declarations.
LiveNames == {decl[d].Name : d \in symmap}

\* The declarations have pairwise distinct names; the new names of the
\* mapping are pairwise distinct and none is a key; and a new name is the
\* name of a declaration only as the name that rename gave it, its key being
\* no live name any more.
DistinctNames ==
    /\ \A d, e \in Decls : decl[d].Name = decl[e].Name => d = e
    /\ Unchained(newnames)
    /\ \A old \in DOMAIN newnames :
           newnames[old] \in {decl[d].Name : d \in Decls}
               => old \notin LiveNames /\ newnames[old] \in LiveNames

\* C23: with distinct names and new names that are distinct, unused and no
\* keys, symtab is a one-to-one index of the live set after every stage:
\* symtab[d.Name] is d for every live d, and every entry n -> d has d.Name = n.
CatalogOneToOne ==
    DistinctNames
        => /\ \A d \in symmap : decl[d].Name \in DOMAIN symtab /\ symtab[decl[d].Name] = d
           /\ \A n \in DOMAIN symtab : decl[symtab[n]].Name = n

\* rename has given a live declaration its new name after extract has
\* trimmed another declaration away.
CatalogOneToOneWitness ==
    /\ pc = "print2"
    /\ DistinctNames
    /\ symmap # Decls
    /\ \E old \in DOMAIN newnames :
           /\ newnames[old] \in DOMAIN symtab
           /\ decl[symtab[newnames[old]]].Name = newnames[old]

\* The names the two passes put first, and the longest run of them at the
\* head of a list of names.
ThreadNames == {"ctxt", "cursym"}
Prepended(names) ==
    LET n == CHOOSE i \in 0..Len(names) :
                 /\ \A j \in 1..i : names[j] \in ThreadNames
                 /\ i < Len(names) => names[i + 1] \notin ThreadNames
    IN  SubSeq(names, 1, n)

ParamNames(d) == [i \in DOMAIN decl[d].Decls |-> decl[d].Decls[i].Name]

\* The live definition of the function that declaration t declares, Nil when
\* there is none.
Definition(t) ==
    IF HasBody(t) THEN t
    ELSE LET ds == {d \in symmap : HasBody(d) /\ decl[d].Name = decl[t].Name}
         IN  IF ds = {} THEN Nil ELSE CHOOSE d \in ds : TRUE

\* C24: after addcursym and addctxt have both run, the arguments put first at
\* every direct call of a tracked function are, by name and order, the
\* parameters put first in the definition of the callee.
ThreadingMatches ==
    pc = "print4"
        => \A k \in Exprs :
               (/\ expr[k].Op = "Call"
                /\ expr[k].XDecl \in symmap
                /\ IsFunc(expr[k].XDecl)
                /\ Definition(expr[k].XDecl) # Nil)
                   => Prepended(expr[k].List)
                          = Prepended(ParamNames(Definition(expr[k].XDecl)))

==============================================================================
